---- MODULE Spec2Model ----
(***************************************************************************)
(* safeurl: the validator isSafeUrl and the fetch wrapper safeFetch of     *)
(* src/src/index.ts.                                                       *)
(*                                                                         *)
(* A JavaScript string is modelled as a sequence of one-character strings, *)
(* so that indexOf, startsWith, toLowerCase and the two regular            *)
(* expressions are computed position by position, as the engine does.      *)
(***************************************************************************)
EXTENDS Integers, Sequences, FiniteSets, TLC

VARIABLES
    url,         \* isSafeUrl: the url argument
    options,     \* isSafeUrl: the options argument, defaults filled in
    pc,          \* where the call in progress stands
    result,      \* isSafeUrl: the value returned, "none" before the return
    input,       \* safeFetch: the input argument
    init,        \* safeFetch: the init argument, by its redirect mode
    fetchCalls,  \* the calls made to the fetch primitive, in order
    outcome      \* safeFetch: the error thrown or the primitive's result

vars == <<url, options, pc, result, input, init, fetchCalls, outcome>>

(***************************************************************************)
(* Bounds of the model.                                                    *)
(***************************************************************************)
\* a candidate string is the concatenation of at most MaxTokens tokens
MaxTokens == 3

(***************************************************************************)
(* String primitives of the host language.                                 *)
(***************************************************************************)
UpperLetters == <<"A","B","C","D","E","F","G","H","I","J","K","L","M",
                  "N","O","P","Q","R","S","T","U","V","W","X","Y","Z">>
LowerLetters == <<"a","b","c","d","e","f","g","h","i","j","k","l","m",
                  "n","o","p","q","r","s","t","u","v","w","x","y","z">>

\* String.prototype.toLowerCase on one character
charToLowerCase(c) ==
    IF \E i \in 1..Len(UpperLetters) : UpperLetters[i] = c
    THEN LowerLetters[CHOOSE i \in 1..Len(UpperLetters) : UpperLetters[i] = c]
    ELSE c

\* String.prototype.toLowerCase
toLowerCase(s) == [i \in 1..Len(s) |-> charToLowerCase(s[i])]

\* String.prototype.startsWith
startsWith(s, prefix) ==
    /\ Len(prefix) <= Len(s)
    /\ \A i \in 1..Len(prefix) : s[i] = prefix[i]

\* String.prototype.indexOf for a one-character needle; 0-based, -1 if absent
indexOf(s, c) ==
    IF \E i \in 1..Len(s) : s[i] = c
    THEN (CHOOSE i \in 1..Len(s) : s[i] = c /\ \A j \in 1..(i-1) : s[j] # c) - 1
    ELSE -1

\* a pattern that leaves the tab out: /[\r\n]/
controlCharsPatternNoTab(s) == \E i \in 1..Len(s) : s[i] \in {"\r", "\n"}
\* /[\r\n\t]/.test(url)
controlCharsPattern(s) == \E i \in 1..Len(s) : s[i] \in {"\r", "\n", "\t"}

\* a pattern without the segment boundaries: /\.\./
traversalPatternSubstring(s) ==
    \E i \in 1..(Len(s) - 1) : s[i] = "." /\ s[i+1] = "."
\* /(^|\/)\.\.(\/|$)/.test(url): a match with its ".." at positions i, i+1
traversalPattern(s) ==
    \E i \in 1..(Len(s) - 1) :
        /\ (i = 1 \/ s[i-1] = "/")
        /\ s[i] = "."
        /\ s[i+1] = "."
        /\ (i + 1 = Len(s) \/ s[i+2] = "/")

\* the prefix test without the two toLowerCase calls
hasAllowedProtocolCaseSensitive(s, allowedProtocols) ==
    \E k \in 1..Len(allowedProtocols) :
        startsWith(s, allowedProtocols[k] \o <<":", "/", "/">>)
\* allowedProtocols.some(protocol => urlLower.startsWith(`${protocol.toLowerCase()}://`))
hasAllowedProtocol(s, allowedProtocols) ==
    \E k \in 1..Len(allowedProtocols) :
        startsWith(toLowerCase(s),
                   toLowerCase(allowedProtocols[k]) \o <<":", "/", "/">>)

\* a scheme test that looks for a colon anywhere
hasProtocolColonOnly(s) == indexOf(s, ":") # -1
\* colonIndex !== -1 && (slashIndex === -1 || colonIndex < slashIndex)
hasProtocol(s) ==
    LET colonIndex == indexOf(s, ":")
        slashIndex == indexOf(s, "/")
    IN  colonIndex # -1 /\ (slashIndex = -1 \/ colonIndex < slashIndex)

(***************************************************************************)
(* isSafeUrl(url, options): the chain of early returns of the source.      *)
(***************************************************************************)
\* the same chain with the allowlist test moved ahead of the traversal test
isSafeUrlProtocolFirst(s, opts) ==
    IF Len(s) = 0 THEN FALSE
    ELSE IF controlCharsPattern(s) THEN FALSE
    ELSE IF hasAllowedProtocol(s, opts.allowedProtocols) THEN TRUE
    ELSE IF traversalPattern(s) THEN FALSE
    ELSE IF hasProtocol(s) THEN FALSE
    ELSE IF ~opts.allowRelative THEN FALSE
    ELSE TRUE

\* if (!url) return false; then the checks in the order of the source
isSafeUrl(s, opts) ==
    IF Len(s) = 0 THEN FALSE
    ELSE IF controlCharsPattern(s) THEN FALSE
    ELSE IF traversalPattern(s) THEN FALSE
    ELSE IF hasAllowedProtocol(s, opts.allowedProtocols) THEN TRUE
    ELSE IF hasProtocol(s) THEN FALSE
    ELSE IF ~opts.allowRelative THEN FALSE
    ELSE TRUE

\* const { allowRelative = true, allowedProtocols = ['http', 'https'] } = options
DefaultOptions ==
    [allowRelative |-> TRUE,
     allowedProtocols |-> << <<"h","t","t","p">>, <<"h","t","t","p","s">> >>]

(***************************************************************************)
(* Inputs.                                                                 *)
(***************************************************************************)
PlainTokens ==
    { <<"\r">>, <<"\n">>, <<"\t">>, <<".">>, <<".", ".">>, <<"/">>, <<":">>,
      <<"a">>, <<":", "/", "/">>,
      <<"h","t","t","p",":","/","/">>,
      <<"H","T","T","P","S",":","/","/">> }

RECURSIVE Concat(_, _)
\* the strings made of at most n tokens of the set
Concat(tokens, n) ==
    IF n = 0 THEN { <<>> }
    ELSE LET shorter == Concat(tokens, n - 1)
         IN  shorter \cup { s \o t : s \in shorter, t \in tokens }

PlainUrls == Concat(PlainTokens, MaxTokens)

AllowLists ==
    { << <<"h","t","t","p">>, <<"h","t","t","p","s">> >>,
      << >>,
      << <<"h","t","t","p","s">> >>,
      << <<"H","T","T","P">>, <<"a">> >>,
      << <<"/">> >> }

Configs == [allowRelative : BOOLEAN, allowedProtocols : AllowLists]

\* strings carrying percent-encoded or backslash-delimited dot segments
EncodedTokens ==
    { <<".">>, <<"/">>, <<"a">>, <<"\\">>,
      <<"%","2","e">>, <<"%","2","f">>, <<"%","5","c">>,
      <<"%","2","5","2","e">>, <<"%","2","5","2","5","2","e">>,
      <<"h","t","t","p","s",":","/","/">> }

EncodedUrls == Concat(EncodedTokens, MaxTokens)

\* what safeFetch is handed
FetchTokens ==
    { <<"\r">>, <<".", ".">>, <<"/">>, <<"a">>,
      <<"h","t","t","p","s",":","/","/">>,
      <<"j","a","v","a","s","c","r","i","p","t",":">> }

FetchUrls == Concat(FetchTokens, MaxTokens)

\* the serialisations a parsed URL object can have: a scheme, no raw control
\* character, dot segments already resolved by the parser
UrlHrefs ==
    { s \in FetchUrls :
        hasProtocol(s) /\ ~controlCharsPattern(s) /\ ~traversalPattern(s) }

\* input: RequestInfo | URL. kind "object" is a request descriptor; urlField
\* is the run-time type of its url property ("missing": no such property).
Inputs ==
    { [kind |-> "string", urlField |-> "n/a", text |-> s] : s \in FetchUrls }
    \cup { [kind |-> "URL", urlField |-> "n/a", text |-> s] : s \in UrlHrefs }
    \cup { [kind |-> "object", urlField |-> "string", text |-> s] : s \in FetchUrls }
    \cup { [kind |-> "object", urlField |-> f, text |-> <<>>] : f \in {"number", "missing"} }

\* init?: RequestInit, by its redirect mode
Inits == {"undefined", "follow", "error", "manual"}

NoInput == [kind |-> "none", urlField |-> "n/a", text |-> <<>>]
NoOutcome == [status |-> "none", error |-> "none", urlStr |-> <<>>]

(***************************************************************************)
(* The validator as a state machine: a call, then its return.              *)
(***************************************************************************)
Init ==
    /\ url \in PlainUrls
    /\ options \in Configs
    /\ pc = "call"
    /\ result = "none"
    /\ input = NoInput
    /\ init = "none"
    /\ fetchCalls = <<>>
    /\ outcome = NoOutcome

InitEncoded ==
    /\ url \in EncodedUrls
    /\ options = DefaultOptions
    /\ pc = "call"
    /\ result = "none"
    /\ input = NoInput
    /\ init = "none"
    /\ fetchCalls = <<>>
    /\ outcome = NoOutcome

IsSafeUrlCall ==
    /\ pc = "call"
    /\ result' = isSafeUrl(url, options)
    /\ pc' = "returned"
    /\ UNCHANGED <<url, options, input, init, fetchCalls, outcome>>

Next == IsSafeUrlCall

Spec == Init /\ [][Next]_vars

SpecEncoded == InitEncoded /\ [][Next]_vars

(***************************************************************************)
(* safeFetch(input, init) and the fetch primitive it delegates to.         *)
(***************************************************************************)
InitFetch ==
    /\ url = <<>>
    /\ options = DefaultOptions
    /\ result = "none"
    /\ input \in Inputs
    /\ init \in Inits
    /\ pc = "call"
    /\ fetchCalls = <<>>
    /\ outcome = NoOutcome

\* the branch of the if / else-if chain that throws, or "none"
safeFetchThrows(in) ==
    IF in.kind = "string" THEN "none"
    ELSE IF in.kind = "URL" THEN "none"
    ELSE IF in.urlField # "missing"
         THEN IF in.urlField = "string" THEN "SecurityViolation"
              ELSE "InvalidRequest"
    ELSE "none"

SafeFetch ==
    /\ pc = "call"
    /\ IF safeFetchThrows(input) = "none"
       THEN /\ fetchCalls' = Append(fetchCalls, [input |-> input, init |-> init])
            /\ pc' = "pending"
            /\ outcome' = outcome
       ELSE /\ fetchCalls' = fetchCalls
            /\ pc' = "rejected"
            /\ outcome' = [status |-> "thrown",
                           error |-> safeFetchThrows(input),
                           urlStr |-> input.text]
    /\ UNCHANGED <<url, options, result, input, init>>

\* the promise of the primitive settles; safeFetch's promise follows it
FetchSettles ==
    /\ pc = "pending"
    /\ \E r \in {"Response", "TransportError"} :
          outcome' = [status |-> "primitive", error |-> r, urlStr |-> <<>>]
    /\ pc' = "settled"
    /\ UNCHANGED <<url, options, result, input, init, fetchCalls>>

NextFetch == SafeFetch \/ FetchSettles

SpecFetch == InitFetch /\ [][NextFetch]_vars

(***************************************************************************)
(* Vocabulary of the properties, stated independently of the operators     *)
(* above.                                                                  *)
(***************************************************************************)
Chars(s) == { s[i] : i \in 1..Len(s) }

ContainsControlChar(s) == Chars(s) \cap {"\r", "\n", "\t"} # {}

RECURSIVE SplitFrom(_, _, _)
\* the "/"-separated segments of s from position i on, cur being the open one
SplitFrom(s, i, cur) ==
    IF i > Len(s) THEN <<cur>>
    ELSE IF s[i] = "/" THEN <<cur>> \o SplitFrom(s, i + 1, <<>>)
    ELSE SplitFrom(s, i + 1, Append(cur, s[i]))

Segments(s) == SplitFrom(s, 1, <<>>)

\* ".." is a complete path segment of s
HasDotDotSegment(s) ==
    LET segs == Segments(s)
    IN  \E k \in 1..Len(segs) : segs[k] = <<".", ".">>

\* ".." occurs in s, but only inside longer segments
DotDotOnlyInsideSegment(s) ==
    LET segs == Segments(s)
    IN  /\ \E k \in 1..Len(segs) :
              \E i \in 1..(Len(segs[k]) - 1) :
                  segs[k][i] = "." /\ segs[k][i+1] = "."
        /\ \A k \in 1..Len(segs) : segs[k] # <<".", ".">>

\* two characters equal up to letter case
SameLetter(a, b) ==
    \/ a = b
    \/ \E j \in 1..Len(UpperLetters) : {a, b} = {UpperLetters[j], LowerLetters[j]}

\* s starts, case-insensitively, with <scheme>:// for a scheme of the list
StartsWithAllowedScheme(s, allowed) ==
    \E k \in 1..Len(allowed) :
        LET p == allowed[k] \o <<":", "/", "/">>
        IN  /\ Len(s) >= Len(p)
            /\ \A i \in 1..Len(p) : SameLetter(s[i], p[i])

\* a colon that no "/" precedes
SchemeBearing(s) ==
    \E i \in 1..Len(s) : s[i] = ":" /\ \A j \in 1..(i - 1) : s[j] # "/"

NoSlashInProtocols(allowed) ==
    \A k \in 1..Len(allowed) : "/" \notin Chars(allowed[k])

(***************************************************************************)
(* The five checks of isSafeUrl taken one at a time, and a decision that   *)
(* applies them in a given order: the first check that does not say        *)
(* "continue" decides, and a string that passes them all is accepted.      *)
(***************************************************************************)
CheckNames == {"control", "traversal", "allowlist", "unrecognized", "relative"}

Step(name, s, opts) ==
    CASE name = "control" ->
            IF controlCharsPattern(s) THEN "reject" ELSE "continue"
      [] name = "traversal" ->
            IF traversalPattern(s) THEN "reject" ELSE "continue"
      [] name = "allowlist" ->
            IF hasAllowedProtocol(s, opts.allowedProtocols) THEN "accept" ELSE "continue"
      [] name = "unrecognized" ->
            IF hasProtocol(s) THEN "reject" ELSE "continue"
      [] name = "relative" ->
            IF ~opts.allowRelative THEN "reject" ELSE "continue"

RECURSIVE DecideFrom(_, _, _, _)
DecideFrom(order, k, s, opts) ==
    IF k > Len(order) THEN TRUE
    ELSE LET r == Step(order[k], s, opts)
         IN  IF r = "reject" THEN FALSE
             ELSE IF r = "accept" THEN TRUE
             ELSE DecideFrom(order, k + 1, s, opts)

\* the empty-string guard stays in front of the reordered checks
Decide(order, s, opts) ==
    IF Len(s) = 0 THEN FALSE ELSE DecideFrom(order, 1, s, opts)

RECURSIVE Permutation(_)
\* the sequences that list every element of S once
Permutation(S) ==
    IF S = {} THEN { <<>> }
    ELSE UNION { { <<x>> \o p : p \in Permutation(S \ {x}) } : x \in S }

\* every order of the five checks
Orders == Permutation(CheckNames)

\* the orders that keep the allowlist check after the two vetoes and before
\* the two checks that follow it in the source
OrdersAroundAllowlist ==
    { <<v[1], v[2], "allowlist", g[1], g[2]>> :
        v \in { <<"control", "traversal">>, <<"traversal", "control">> },
        g \in { <<"unrecognized", "relative">>, <<"relative", "unrecognized">> } }

WithoutTraversal == <<"control", "allowlist", "unrecognized", "relative">>

Returned == pc = "returned"

(***************************************************************************)
(* Properties of isSafeUrl.                                                *)
(***************************************************************************)

\* C3: a string that contains a carriage return, a line feed or a tab at any
\* position is rejected, whatever allowRelative and allowedProtocols are.
C3_ControlCharRejected ==
    (Returned /\ ContainsControlChar(url)) => result = FALSE

\* C3 witness: a tab after an allowlisted prefix, rejected.
C3_Witness ==
    /\ Returned
    /\ "\t" \in Chars(url)
    /\ StartsWithAllowedScheme(url, options.allowedProtocols)
    /\ result = FALSE

C10_AsStated ==
    Returned => \A o \in Orders : Decide(o, url, options) = result

\* C10 amended: every order that keeps the allowlist check after the
\* control-character and path-traversal vetoes and before the
\* unrecognized-protocol veto and the relative-URL gate gives the decision
\* isSafeUrl returns.
C10_OrderAroundAllowlist ==
    Returned =>
        \A o \in OrdersAroundAllowlist : Decide(o, url, options) = result

\* C10 witness: a string that both vetoes reject.
C10_Witness ==
    /\ Returned
    /\ controlCharsPattern(url)
    /\ traversalPattern(url)
    /\ result = FALSE

(***************************************************************************)
(* Encoded and backslash-delimited dot segments.                           *)
(***************************************************************************)
\* the character a percent escape %h1h2 stands for, "" when not modelled
Unescape(h1, h2) ==
    CASE h1 = "2" /\ charToLowerCase(h2) = "e" -> "."
      [] h1 = "2" /\ charToLowerCase(h2) = "f" -> "/"
      [] h1 = "5" /\ charToLowerCase(h2) = "c" -> "\\"
      [] h1 = "2" /\ h2 = "5" -> "%"
      [] OTHER -> ""

RECURSIVE PercentDecodeFrom(_, _)
\* one pass of percent-decoding over s from position i on
PercentDecodeFrom(s, i) ==
    IF i > Len(s) THEN <<>>
    ELSE IF s[i] = "%" /\ i + 2 <= Len(s) /\ Unescape(s[i+1], s[i+2]) # ""
         THEN <<Unescape(s[i+1], s[i+2])>> \o PercentDecodeFrom(s, i + 3)
         ELSE <<s[i]>> \o PercentDecodeFrom(s, i + 1)

PercentDecode(s) == PercentDecodeFrom(s, 1)

\* s holds a ".." segment behind one, two or three layers of encoding
HasEncodedDotDotSegment(s) ==
    /\ ~HasDotDotSegment(s)
    /\ \/ HasDotDotSegment(PercentDecode(s))
       \/ HasDotDotSegment(PercentDecode(PercentDecode(s)))
       \/ HasDotDotSegment(PercentDecode(PercentDecode(PercentDecode(s))))

\* ".." after the start, a "/" or a "\", and followed by "\" or "%5c"
HasBackslashDotDotSegment(s) ==
    \E i \in 1..(Len(s) - 2) :
        /\ (i = 1 \/ s[i-1] \in {"/", "\\"})
        /\ s[i] = "."
        /\ s[i+1] = "."
        /\ \/ s[i+2] = "\\"
           \/ /\ i + 4 <= Len(s)
              /\ s[i+2] = "%" /\ s[i+3] = "5" /\ charToLowerCase(s[i+4]) = "c"

\* C6: with the default configuration, a string whose path holds a ".."
\* segment with its dots or its delimiting slash percent-encoded once, twice
\* or three times is rejected.
C6_EncodedTraversalRejected ==
    (Returned /\ options = DefaultOptions /\ HasEncodedDotDotSegment(url))
        => result = FALSE

\* C7: with the default configuration, a string that holds a ".." segment
\* delimited by a backslash (or %5c) is rejected.
C7_BackslashTraversalRejected ==
    (Returned /\ options = DefaultOptions /\ HasBackslashDotDotSegment(url))
        => result = FALSE

(***************************************************************************)
(* Properties of safeFetch.                                                *)
(***************************************************************************)
\* the call has run: it threw, or it handed over to the primitive
Called == pc \in {"rejected", "pending", "settled"}

\* input is one of the three shapes that carry a URL string
HasUrlString(in) ==
    \/ in.kind \in {"string", "URL"}
    \/ in.kind = "object" /\ in.urlField = "string"

\* C1: in each of the three input shapes, when isSafeUrl with the default
\* configuration rejects the extracted string, the fetch primitive is never
\* invoked and the call fails with an error.
C1_UnsafeNeverFetched ==
    (Called /\ HasUrlString(input) /\ ~isSafeUrl(input.text, DefaultOptions)) =>
        /\ fetchCalls = <<>>
        /\ pc = "rejected"
        /\ outcome.status = "thrown"

\* C2: in each of the three input shapes, when isSafeUrl with the default
\* configuration accepts the extracted string, the fetch primitive is
\* invoked exactly once with the unmodified input and init, safeFetch raises
\* no error of its own, and the call settles with the primitive's result.
C2_SafeForwardedUnmodified ==
    (Called /\ HasUrlString(input) /\ isSafeUrl(input.text, DefaultOptions)) =>
        /\ fetchCalls = << [input |-> input, init |-> init] >>
        /\ outcome.status # "thrown"
        /\ pc = "settled" => outcome.status = "primitive"

\* C9: a request descriptor whose url field is missing or is not a string
\* makes the call fail with a descriptive error, the fetch primitive never
\* being invoked.
C9_NoUrlStringFails ==
    (Called /\ input.kind = "object" /\ input.urlField # "string") =>
        /\ fetchCalls = <<>>
        /\ pc = "rejected"
        /\ outcome.status = "thrown"
        /\ outcome.error = "InvalidRequest"

====
